---- MODULE Spec2Model ----
(***************************************************************************)
(* A model of the echo-views ViewRenderer: the registry of views, the      *)
(* compilation of a view from a file collection, and the rendering of a    *)
(* view by name, with and without autoReload.                              *)
(*                                                                         *)
(* A path or pattern is the sequence of its slash-separated segments, so   *)
(* that path.Base and fs.Glob are computed, not assumed.  The template     *)
(* engine (html/template) is modelled by what ParseFS and ExecuteTemplate  *)
(* do on a small catalogue of file contents.                               *)
(***************************************************************************)
EXTENDS Naturals, Sequences, FiniteSets, TLC

VARIABLES
    fsys,        \* the file collection: path -> content, or Absent
    autoReload,  \* ViewRenderer.autoReload
    templates,   \* ViewRenderer.templates: key -> View pointer
    heap,        \* the View objects: pointer -> View, or Free
    lastAdd,     \* the last registration call: its arguments, result and effect
    latest,      \* key -> what the last registration under this base name was given
    pc,          \* per request: where its Render call stands
    req,         \* per request: the call (entry point, name, data, code) and its locals
    w,           \* per request: the output sink Render writes to
    resp,        \* per request: the calls made on the response sink (echo Context)
    ret,         \* per request: the error returned to the caller
    obs          \* per request: what the call observed (for the properties only)

vars == <<fsys, autoReload, templates, heap, lastAdd, latest, pc, req, w, resp, ret, obs>>

----------------------------------------------------------------------------
(* Bounds *)

\* views that can be live at once (in the registry or held by a running Render)
MaxViews == 3
\* net/http.StatusInternalServerError
StatusInternalServerError == 500

Procs == {"r1", "r2"}

----------------------------------------------------------------------------
(* Paths, path.Base and fs.Glob *)

LayoutFile == <<"layout.html">>
HeaderFile == <<"includes", "header.html">>
IndexFile  == <<"pages", "index.html">>
MetaFile   == <<"pages", "n[1].html">>
DataFile   == <<"fragments", "index.html">>
DataPage   == <<"fragments", "data.html">>

\* the files the collection can hold, in the order fs.Glob lists them
FileOrder == <<DataPage, DataFile, HeaderFile, LayoutFile, IndexFile, MetaFile>>

Files == {FileOrder[i] : i \in 1..Len(FileOrder)}

Absent == "absent"

\* path.Base: the last element of the path; "." for the empty path
Base(p) == IF p = <<>> THEN "." ELSE p[Len(p)]

\* a pattern segment that path.Match rejects (ErrBadPattern)
BadSegment(s) == s = "["

\* path.Match on one segment
SegMatch(pat, seg) ==
    CASE pat = "*.html"    -> seg \in {"layout.html", "header.html", "index.html", "data.html", "n[1].html", "n1.html"}
      [] pat = "n[1].html" -> seg = "n1.html"
      [] OTHER             -> pat = seg

PathMatch(pattern, path) ==
    /\ Len(pattern) = Len(path)
    /\ \A i \in 1..Len(pattern) : SegMatch(pattern[i], path[i])

BadPattern(pattern) == \E i \in 1..Len(pattern) : BadSegment(pattern[i])

\* fs.Glob: the files of the collection that match, in directory order
MatchesFile(fs, pattern, f) == fs[f] # Absent /\ PathMatch(pattern, f)

Glob(fs, pattern) == SelectSeq(FileOrder, LAMBDA f : MatchesFile(fs, pattern, f))

----------------------------------------------------------------------------
(* Errors: the kind of the innermost error and the messages wrapped around *)
(* it (fmt.Errorf with %w), outermost first.                               *)

NilErr == [kind |-> "nil", wrap |-> <<>>]

Err(kind) == [kind |-> kind, wrap |-> <<>>]

Wrap(msg, e) == [kind |-> e.kind, wrap |-> <<msg>> \o e.wrap]

\* readFileNames and html/template's parseFS share this loop
RECURSIVE GlobAll(_, _)
GlobAll(fs, patterns) ==
    IF patterns = <<>> THEN [err |-> NilErr, files |-> <<>>]
    ELSE LET pattern == Head(patterns) IN
         IF BadPattern(pattern) THEN [err |-> Err("badpattern"), files |-> <<>>]
         ELSE IF Len(Glob(fs, pattern)) = 0 THEN [err |-> Err("nomatch"), files |-> <<>>]
         ELSE LET rest == GlobAll(fs, Tail(patterns)) IN
              IF rest.err # NilErr THEN rest
              ELSE [err |-> NilErr, files |-> Glob(fs, pattern) \o rest.files]

\* readFileNames wraps fs.Glob's error and returns its own "no files" error bare
readFileNames(fs, patterns) ==
    LET r == GlobAll(fs, patterns) IN
    IF r.err.kind = "badpattern"
    THEN [err |-> Wrap("failed to list using file pattern", r.err), files |-> <<>>]
    ELSE r

\* html/template.parseFS resolves the patterns the same way and wraps nothing
parseFSNames(fs, patterns) == GlobAll(fs, patterns)

----------------------------------------------------------------------------
(* The template engine.  A template body is a sequence of items: literal   *)
(* text, a call of a named template ({{template "x" .}} or the hook of a   *)
(* {{block "x" .}}), and a field of the data ({{.Title}}).  Literal text   *)
(* is kept in the pieces html/template's escaper treats differently: plain *)
(* text, an HTML comment, and a "<" that opens no tag.                     *)

Text(s)  == [t |-> "text", s |-> s]
Call(n)  == [t |-> "call", s |-> n]
Field    == [t |-> "field", s |-> "Title"]
Comment  == [t |-> "comment", s |-> "<!-- note -->"]
Lt       == [t |-> "lt", s |-> "< "]

\* The catalogue of file contents: what parsing the text yields.  ok: the text
\* parses; body: the template named after the file; defs: the templates the
\* text defines ({{define}}, {{block}}), as <<name, body>> pairs.
ParseText(c) ==
    CASE c = "L1" -> [ok |-> TRUE, body |-> <<Text("layout "), Call("content"), Text("end")>>,
                      defs |-> << <<"content", <<Text("none ")>> >> >>]
      [] c = "L2" -> [ok |-> TRUE, body |-> <<Call("header"), Text("LAYOUT "), Call("content"), Text("footer")>>,
                      defs |-> << <<"content", <<Text("none ")>> >> >>]
      [] c = "H1" -> [ok |-> TRUE, body |-> <<>>,
                      defs |-> << <<"header", <<Text("header ")>> >> >>]
      [] c = "P1" -> [ok |-> TRUE, body |-> <<>>,
                      defs |-> << <<"content", <<Text("index ")>> >> >>]
      [] c = "P2" -> [ok |-> TRUE, body |-> <<Text("page ")>>,
                      defs |-> << <<"content", <<Text("hello "), Field, Text("bye ")>> >> >>]
      [] c = "P3" -> [ok |-> TRUE, body |-> <<>>,
                      defs |-> << <<"content", <<Text("top "), Call("header")>> >> >>]
      [] c = "D1" -> [ok |-> TRUE, body |-> <<Text("data")>>, defs |-> <<>>]
      [] c = "S1" -> [ok |-> TRUE, body |-> <<Text("a "), Lt, Text("b"), Comment>>, defs |-> <<>>]
      [] OTHER    -> [ok |-> FALSE, body |-> <<>>, defs |-> <<>>]

\* the states each file of the collection can be in
Alt(f) ==
    CASE f = LayoutFile -> {"L1", "L2"}
      [] f = HeaderFile -> {"H1"}
      [] f = IndexFile  -> {"P1", "P2", "BAD", Absent}
      [] f = MetaFile   -> {"D1", Absent}
      [] f = DataFile   -> {"D1"}
      [] f = DataPage   -> {Absent}

\* A compiled artifact (*template.Template): the set of named templates, each
\* with a parse tree or none.
NoTree == [tree |-> FALSE, body |-> <<>>]

Tree(body) == [tree |-> TRUE, body |-> body]

\* template.New(name): a set holding one template with no parse tree
NewTemplate(name) == [n \in {name} |-> NoTree]

\* text/template's associate: a definition replaces an earlier one of the same
\* name, unless it is empty and the earlier one has a tree
AddParseTree(set, name, body) ==
    IF name \in DOMAIN set /\ set[name].tree /\ body = <<>>
    THEN set
    ELSE [n \in DOMAIN set \cup {name} |-> IF n = name THEN Tree(body) ELSE set[n]]

RECURSIVE AddDefs(_, _)
AddDefs(set, defs) ==
    IF defs = <<>> THEN set
    ELSE AddDefs(AddParseTree(set, Head(defs)[1], Head(defs)[2]), Tail(defs))

\* parseFiles: each file in order, under its base name; the first text that does
\* not parse ends it
RECURSIVE parseFiles(_, _, _)
parseFiles(set, fs, files) ==
    IF files = <<>> THEN [err |-> NilErr, set |-> set]
    ELSE LET p == ParseText(fs[Head(files)]) IN
         IF ~p.ok THEN [err |-> Err("parse"), set |-> set]
         ELSE parseFiles(AddDefs(AddParseTree(set, Base(Head(files)), p.body), p.defs),
                         fs, Tail(files))

\* template.New(name).ParseFS(fsys, patterns...): the artifact, or nil and an error
Nil == [nil |-> TRUE]

Artifact(set) == [nil |-> FALSE, set |-> set]

ParseFS(name, fs, patterns) ==
    LET r == parseFSNames(fs, patterns) IN
    IF r.err # NilErr THEN [err |-> r.err, tmpl |-> Nil]
    ELSE LET q == parseFiles(NewTemplate(name), fs, r.files) IN
         IF q.err # NilErr THEN [err |-> q.err, tmpl |-> Nil]
         ELSE [err |-> NilErr, tmpl |-> Artifact(q.set)]

\* the data a caller passes: nil, a value with the field, a value without it
Data == {"nil", "post", "other"}

\* html/template escapes the set before it writes anything: the entry point must
\* have a tree and every template it reaches must be defined
RECURSIVE Escapable(_, _)
Escapable(set, name) ==
    /\ name \in DOMAIN set
    /\ set[name].tree
    /\ \A i \in 1..Len(set[name].body) :
          set[name].body[i].t = "call" => Escapable(set, set[name].body[i].s)

\* text/template's walk: output is written as it goes; a field the data does not
\* have stops it, and what was written stays.  The text is written as the
\* escaper left it: a comment is dropped, a "<" that opens no tag is written
\* "&lt;"
RECURSIVE Walk(_, _, _)
Walk(set, body, data) ==
    IF body = <<>> THEN [out |-> <<>>, ok |-> TRUE]
    ELSE LET it == Head(body)
             first == CASE it.t = "text"  -> [out |-> <<it.s>>, ok |-> TRUE]
                        [] it.t = "comment" -> [out |-> <<>>, ok |-> TRUE]
                        [] it.t = "lt"    -> [out |-> <<"&lt; ">>, ok |-> TRUE]
                        [] it.t = "call"  -> Walk(set, set[it.s].body, data)
                        [] it.t = "field" ->
                             IF data = "other" THEN [out |-> <<>>, ok |-> FALSE]
                             ELSE IF data = "post" THEN [out |-> <<"title ">>, ok |-> TRUE]
                             ELSE [out |-> <<>>, ok |-> TRUE]
         IN IF ~first.ok THEN first
            ELSE LET rest == Walk(set, Tail(body), data) IN
                 [out |-> first.out \o rest.out, ok |-> rest.ok]

\* (*template.Template).ExecuteTemplate(w, name, data) on a non-nil artifact
ExecuteTemplate(tmpl, name, data) ==
    IF ~Escapable(tmpl.set, name) THEN [out |-> <<>>, err |-> Err("exec")]
    ELSE LET r == Walk(tmpl.set, tmpl.set[name].body, data) IN
         [out |-> r.out, err |-> IF r.ok THEN NilErr ELSE Err("exec")]


----------------------------------------------------------------------------
(* The registry: View objects behind pointers, and the map from key to      *)
(* pointer.                                                                *)

ViewIds == 1..MaxViews

Free == [free |-> TRUE]

\* &View{layout, includes, name}: the template field starts nil.  reg is not a
\* field of the program: it keeps the artifact registration compiled, for the
\* properties that compare a later render with it
NewView(name, layout, includes) ==
    [name |-> name, layout |-> layout, includes |-> includes, template |-> Nil, reg |-> Nil]

Range(f) == {f[k] : k \in DOMAIN f}

EmptyMap == [k \in {} |-> 0]

\* variant: a key that is taken keeps its value
MapPutFirst(m, k, v) == [x \in DOMAIN m \cup {k} |-> IF x \in DOMAIN m THEN m[x] ELSE v]

\* t.templates[key] = tmpl
MapPut(m, k, v) == [x \in DOMAIN m \cup {k} |-> IF x = k THEN v ELSE m[x]]

\* the View objects still referenced: by the map, or by a running Render
Live(tpls, held) == Range(tpls) \cup held

\* objects nothing references are reclaimed
Collect(h, tpls, held) == [v \in ViewIds |-> IF v \in Live(tpls, held) THEN h[v] ELSE Free]

\* variant: the page comes first
compilePatternsPageFirst(v) ==
    <<v.name>>
    \o (IF v.layout # <<>> THEN <<v.layout>> ELSE <<>>)
    \o (IF v.includes # <<>> THEN <<v.includes>> ELSE <<>>)

\* variant: the includes are left out
compilePatternsNoIncludes(v) ==
    (IF v.layout # <<>> THEN <<v.layout>> ELSE <<>>) \o <<v.name>>

\* the patterns compileTemplate hands to ParseFS
compilePatterns(v) ==
    (IF v.layout # <<>> THEN <<v.layout>> ELSE <<>>)
    \o (IF v.includes # <<>> THEN <<v.includes>> ELSE <<>>)
    \o <<v.name>>

\* the ParseFS call of compileTemplate
compileParse(v, fs) == ParseFS(Base(v.name), fs, compilePatterns(v))

\* the error compileTemplate returns for a ParseFS error
compileErr(e) == IF e = NilErr THEN NilErr ELSE Wrap("failed to parse template", e)

\* variant: once a compilation of a registered view has failed, later ones
\* leave its template field nil
compileAssignSticky(st, ptr, r) ==
    LET key == Base(st.heap[ptr].name)
        broken == /\ key \in DOMAIN st.templates
                  /\ st.templates[key] = ptr
                  /\ st.heap[ptr].template = Nil
        h == [st.heap EXCEPT ![ptr].template = IF broken THEN Nil ELSE r.tmpl]
    IN
    IF r.err # NilErr
    THEN [heap |-> h, templates |-> st.templates, err |-> Wrap("failed to parse template", r.err)]
    ELSE [heap |-> h, templates |-> MapPut(st.templates, key, ptr), err |-> NilErr]

\* variant: a view that fails to compile is taken out of the map
compileAssignEvicts(st, ptr, r) ==
    LET h == [st.heap EXCEPT ![ptr].template = r.tmpl]
        key == Base(st.heap[ptr].name)
    IN
    IF r.err # NilErr
    THEN [heap |-> h, templates |-> [k \in DOMAIN st.templates \ {key} |-> st.templates[k]],
          err |-> Wrap("failed to parse template", r.err)]
    ELSE [heap |-> h, templates |-> MapPut(st.templates, key, ptr), err |-> NilErr]

\* compileTemplate once ParseFS has returned r: the template field is assigned
\* whatever it returned, and the map is written only when it succeeded
compileAssign(st, ptr, r) ==
    LET h == [st.heap EXCEPT ![ptr].template = r.tmpl] IN
    IF r.err # NilErr
    THEN [heap |-> h, templates |-> st.templates, err |-> compileErr(r.err)]
    ELSE [heap |-> h, templates |-> MapPut(st.templates, Base(st.heap[ptr].name), ptr), err |-> NilErr]

\* compileTemplate on the View behind ptr, in one piece
compileTemplate(st, ptr, fs) == compileAssign(st, ptr, compileParse(st.heap[ptr], fs))

\* A pointer's value is arbitrary.  When a new View takes an older one's place
\* in the map and nothing else refers to the older one, the new View is kept
\* at the older one's address, so that equal registries are equal states
Settle(before, st, ptr) ==
    LET key == Base(st.heap[ptr].name) IN
    IF key \in DOMAIN before /\ key \in DOMAIN st.templates /\ st.templates[key] = ptr
    THEN [heap |-> [st.heap EXCEPT ![before[key]] = st.heap[ptr], ![ptr] = Free],
          templates |-> [st.templates EXCEPT ![key] = before[key]]]
    ELSE [heap |-> Collect(st.heap, st.templates, {}), templates |-> st.templates]

\* the loop of Add, AddWithLayout and AddWithLayoutAndIncludes: one new View per
\* file name, compiled in turn; the first error ends the call
RECURSIVE addViews(_, _, _, _, _)
addViews(st, fs, layout, includes, files) ==
    IF files = <<>> THEN [heap |-> st.heap, templates |-> st.templates, err |-> NilErr]
    ELSE LET ptr == CHOOSE v \in ViewIds :
                        /\ st.heap[v] = Free
                        /\ \A u \in ViewIds : st.heap[u] = Free => v <= u
             h0  == [st.heap EXCEPT ![ptr] = NewView(Head(files), layout, includes)]
             r   == compileTemplate([heap |-> h0, templates |-> st.templates], ptr, fs)
             h1  == [r.heap EXCEPT ![ptr].reg = r.heap[ptr].template]
             s1  == Settle(st.templates, [heap |-> h1, templates |-> r.templates], ptr)
         IN IF r.err # NilErr
            THEN [heap |-> s1.heap, templates |-> s1.templates, err |-> r.err]
            ELSE addViews(s1, fs, layout, includes, Tail(files))

\* the message each registration call wraps around readFileNames' error
addWrapMsg(kind) ==
    IF kind = "Add" THEN "failed to read file names using file pattern"
    ELSE "failed to list using file pattern"

\* variant: every view is registered as a page-only view
addCallPageOnly(st, fs, kind, layout, includes, patterns) ==
    LET names == readFileNames(fs, patterns) IN
    IF names.err # NilErr
    THEN [heap |-> st.heap, templates |-> st.templates,
          err |-> Wrap(IF kind = "Add" THEN "failed to read file names using file pattern"
                       ELSE "failed to list using file pattern", names.err)]
    ELSE addViews(st, fs, <<>>, <<>>, names.files)

\* variant: a call that fails leaves the registry as it found it
addCallAtomic(st, fs, kind, layout, includes, patterns) ==
    LET names == readFileNames(fs, patterns)
        r     == addViews(st, fs,
                          IF kind = "Add" THEN <<>> ELSE layout,
                          IF kind = "AddWithLayoutAndIncludes" THEN includes ELSE <<>>,
                          names.files)
    IN IF names.err # NilErr
       THEN [heap |-> st.heap, templates |-> st.templates, err |-> Wrap(addWrapMsg(kind), names.err)]
       ELSE IF r.err # NilErr
            THEN [heap |-> st.heap, templates |-> st.templates, err |-> r.err]
            ELSE r

\* Add(patterns...), AddWithLayout(layout, patterns...) and
\* AddWithLayoutAndIncludes(layout, includes, patterns...)
addCall(st, fs, kind, layout, includes, patterns) ==
    LET names == readFileNames(fs, patterns) IN
    IF names.err # NilErr
    THEN [heap |-> st.heap, templates |-> st.templates, err |-> Wrap(addWrapMsg(kind), names.err)]
    ELSE addViews(st, fs,
                  IF kind = "Add" THEN <<>> ELSE layout,
                  IF kind = "AddWithLayoutAndIncludes" THEN includes ELSE <<>>,
                  names.files)


----------------------------------------------------------------------------
(* Render and RenderToHTMLBlob: the parts that touch only the request.      *)

NoContentCall(code) == [call |-> "NoContent", code |-> code, body |-> <<>>]

HTMLBlobCall(code, body) == [call |-> "HTMLBlob", code |-> code, body |-> body]

\* what a call on the response sink can return
SinkResults == {NilErr, Err("sink")}

Panic == Err("panic")

\* the runtime stops the program on an unguarded map access it detects
Fatal == Err("fatal")

\* lookupTemplate's error for a name that is not a key of the map
notFound == Err("notfound")

\* variant: the error is returned and no response is sent
renderLookupFailedSilent(err, noContentResult) ==
    [w |-> <<>>, resp |-> <<>>, ret |-> err]

\* Render when lookupTemplate returned an error: the error is logged, a
\* no-content response is sent and NoContent's own result is returned
renderLookupFailed(err, noContentResult) ==
    [w |-> <<>>, resp |-> <<NoContentCall(StatusInternalServerError)>>, ret |-> noContentResult]

\* variant: the layout is always the entry point
execNameLayout(v) == Base(v.layout)

\* variant: the page is always the entry point
execNamePage(v) == Base(v.name)

\* the name Render executes: the layout's base name if the view has a layout,
\* else the page's
execName(v) == IF v.layout # <<>> THEN Base(v.layout) ELSE Base(v.name)

\* variant: a successful execution also sends a no-content response
renderExecuteResponds(v, data) ==
    IF v.template = Nil THEN [w |-> <<>>, resp |-> <<>>, ret |-> Panic]
    ELSE LET r == ExecuteTemplate(v.template, IF v.layout # <<>> THEN Base(v.layout) ELSE Base(v.name), data) IN
         [w |-> r.out, ret |-> r.err,
          resp |-> IF r.err = NilErr THEN <<[call |-> "NoContent", code |-> 200, body |-> <<>>]>> ELSE <<>>]

\* variant: the view is executed into a writer other than the caller's
renderExecuteElsewhere(v, data) ==
    IF v.template = Nil THEN [w |-> <<>>, resp |-> <<>>, ret |-> Panic]
    ELSE LET r == ExecuteTemplate(v.template, IF v.layout # <<>> THEN Base(v.layout) ELSE Base(v.name), data) IN
         [w |-> <<>>, resp |-> <<>>, ret |-> r.err]

\* variant: the output of a failed execution is held back
renderExecuteBuffered(v, data) ==
    IF v.template = Nil THEN [w |-> <<>>, resp |-> <<>>, ret |-> Panic]
    ELSE LET r == ExecuteTemplate(v.template, IF v.layout # <<>> THEN Base(v.layout) ELSE Base(v.name), data) IN
         [w |-> IF r.err = NilErr THEN r.out ELSE <<>>, resp |-> <<>>, ret |-> r.err]

\* Render from the execution on: tmpl.template.ExecuteTemplate(w, execName, data);
\* a nil template is a nil dereference
renderExecute(v, data) ==
    IF v.template = Nil THEN [w |-> <<>>, resp |-> <<>>, ret |-> Panic]
    ELSE LET r == ExecuteTemplate(v.template, execName(v), data) IN
         [w |-> r.out, resp |-> <<>>, ret |-> r.err]

\* variant: the buffer is sent with status 200 whatever code was asked for
renderToHTMLBlobStatusOK(r, code, blobResult) ==
    IF r.ret # NilErr THEN r
    ELSE [w |-> r.w, resp |-> r.resp \o <<HTMLBlobCall(200, r.w)>>, ret |-> blobResult]

\* RenderToHTMLBlob around Render's outcome r (w is its buffer): Render's error is
\* returned as it is; otherwise the buffer is sent with HTMLBlob
renderToHTMLBlob(r, code, blobResult) ==
    IF r.ret # NilErr THEN r
    ELSE [w |-> r.w, resp |-> r.resp \o <<HTMLBlobCall(code, r.w)>>, ret |-> blobResult]

\* the outcome of the whole call, by entry point
callOutcome(op, r, code, blobResult) ==
    IF op = "RenderToHTMLBlob" THEN renderToHTMLBlob(r, code, blobResult) ELSE r

----------------------------------------------------------------------------
(* State *)

\* the names a caller renders: the key views are registered under, and one
\* that never is
RenderNames == {"index.html", "missing.html"}

Ops == {"Render", "RenderToHTMLBlob"}

\* the status codes a caller passes to RenderToHTMLBlob
Codes == {201}

PagePatterns == {<<"pages", "*.html">>, <<"fragments", "*.html">>, <<"nothing", "*.html">>, <<"[">>}

LayoutPatterns == {LayoutFile, <<"nothing.html">>, <<>>}

IncludesPatterns == {<<"includes", "*.html">>, <<"nothing", "*.html">>}

AddKinds == {"Add", "AddWithLayout", "AddWithLayoutAndIncludes"}

\* the page patterns of one registration call: none, one or two
PatternLists ==
    {<<>>} \cup {<<p>> : p \in PagePatterns} \cup {<<p, q>> : p \in PagePatterns, q \in PagePatterns}

NoAdd == [kind |-> "none"]

NoParse == [err |-> NilErr, tmpl |-> Nil]

NoOutcome == [w |-> <<>>, resp |-> <<>>, ret |-> NilErr]

\* A call's arguments and locals.  The entry point, the data and the status code
\* are read only as the call ends, and are drawn there (the data only if the
\* call gets to execute the view); view is the *View lookupTemplate found (0:
\* none yet); parsed is what ParseFS returned to compileTemplate
NoReq == [op |-> "none", name |-> "", data |-> "none", code |-> 0, view |-> 0, parsed |-> NoParse]

\* What is recorded of a call, for the properties.  stage: how far Render got;
\* lookupErr: the error lookupTemplate returned; render: Render's own outcome
\* (RenderToHTMLBlob adds to it); ran: the template field Render executed; entry:
\* the name Render passed to ExecuteTemplate ("" if it did not get there);
\* slotNil: the view's template field was nil when lookupTemplate found the
\* view; dirty: the file collection changed while the call ran; overlap:
\* another call ran while this one did
NoObs ==
    [stage |-> "none", lookupErr |-> NilErr, render |-> NoOutcome, ran |-> Nil,
     entry |-> "", slotNil |-> FALSE, dirty |-> FALSE, overlap |-> FALSE]

InitFS ==
    [f \in Files |-> CASE f = LayoutFile -> "L1"
                       [] f = HeaderFile -> "H1"
                       [] f = IndexFile  -> "P1"
                       [] f = MetaFile   -> Absent
                       [] f = DataFile   -> "D1"
                       [] f = DataPage   -> Absent]

Init ==
    /\ fsys = InitFS
    /\ autoReload \in BOOLEAN
    /\ templates = EmptyMap
    /\ heap = [v \in ViewIds |-> Free]
    /\ lastAdd = NoAdd
    /\ latest = EmptyMap
    /\ pc = [p \in Procs |-> "idle"]
    /\ req = [p \in Procs |-> NoReq]
    /\ w = [p \in Procs |-> <<>>]
    /\ resp = [p \in Procs |-> <<>>]
    /\ ret = [p \in Procs |-> NilErr]
    /\ obs = [p \in Procs |-> NoObs]

\* no result is waiting to be taken by its caller
Quiet == lastAdd = NoAdd /\ \A p \in Procs : pc[p] # "done"

Running == {p \in Procs : pc[p] \notin {"idle", "done"}}

\* the View objects running Render calls hold
Held(rq, ps) == {rq[p].view : p \in {q \in ps : rq[q].view # 0}}

\* the files at the head of a registration's list whose views all compile: the
\* loop registers these and ends at the next one
RECURSIVE Compiling(_, _, _, _)
Compiling(fs, layout, includes, files) ==
    IF files = <<>> THEN <<>>
    ELSE IF compileParse(NewView(Head(files), layout, includes), fs).err # NilErr THEN <<>>
         ELSE <<Head(files)>> \o Compiling(fs, layout, includes, Tail(files))

\* what was given for each base name when a view was last registered under it,
\* after one more registration call: the page file, the layout and includes,
\* and the artifact the engine made of them then
Newest(old, fs, kind, layout, includes, patterns) ==
    LET names == readFileNames(fs, patterns)
        lay   == IF kind = "Add" THEN <<>> ELSE layout
        inc   == IF kind = "AddWithLayoutAndIncludes" THEN includes ELSE <<>>
        head  == IF names.err # NilErr THEN <<>> ELSE Compiling(fs, lay, inc, names.files)
        keys  == {Base(head[i]) : i \in 1..Len(head)}
        last(key) == head[CHOOSE i \in 1..Len(head) :
                              /\ Base(head[i]) = key
                              /\ \A j \in 1..Len(head) : Base(head[j]) = key => j <= i]
    IN [key \in DOMAIN old \cup keys |->
            IF key \in keys
            THEN [name |-> last(key), layout |-> lay, includes |-> inc,
                  template |-> compileParse(NewView(last(key), lay, inc), fs).tmpl]
            ELSE old[key]]

----------------------------------------------------------------------------
(* Actions *)

\* the file collection changes under the program: a file is written or removed
WriteFile(f, c) ==
    /\ Quiet
    /\ fsys[f] # c
    /\ fsys' = [fsys EXCEPT ![f] = c]
    /\ obs' = [p \in Procs |-> IF p \in Running THEN [obs[p] EXCEPT !.dirty = TRUE] ELSE obs[p]]
    /\ UNCHANGED <<autoReload, templates, heap, lastAdd, latest, pc, req, w, resp, ret>>

\* Add, AddWithLayout, AddWithLayoutAndIncludes.  Registration is startup work:
\* it runs while no Render call does
AddTemplates(kind, layout, includes, patterns) ==
    /\ Quiet
    /\ \A p \in Procs : pc[p] = "idle"
    /\ LET r == addCall([heap |-> heap, templates |-> templates], fsys,
                        kind, layout, includes, patterns)
       IN /\ heap' = r.heap
          /\ templates' = r.templates
          /\ lastAdd' = [kind |-> kind, layout |-> layout, includes |-> includes,
                         patterns |-> patterns, err |-> r.err, before |-> templates,
                         was |-> [k \in DOMAIN templates |-> heap[templates[k]]]]
    /\ latest' = Newest(latest, fsys, kind, layout, includes, patterns)
    /\ UNCHANGED <<fsys, autoReload, pc, req, w, resp, ret, obs>>

\* the caller takes the registration's result
AddReturn ==
    /\ lastAdd # NoAdd
    /\ lastAdd' = NoAdd
    /\ UNCHANGED <<fsys, autoReload, templates, heap, latest, pc, req, w, resp, ret, obs>>

\* a request calls Render or RenderToHTMLBlob
CallRender(p, name) ==
    /\ Quiet
    /\ pc[p] = "idle"
    /\ pc' = [pc EXCEPT ![p] = "lookup"]
    /\ req' = [req EXCEPT ![p].name = name]
    /\ obs' = [q \in Procs |-> IF q = p THEN [NoObs EXCEPT !.stage = "running", !.overlap = Running # {}]
                               ELSE IF q \in Running THEN [obs[q] EXCEPT !.overlap = TRUE]
                               ELSE obs[q]]
    /\ UNCHANGED <<fsys, autoReload, templates, heap, lastAdd, latest, w, resp, ret>>

\* the call ends with Render's outcome r; RenderToHTMLBlob sends the buffer
Finish(p, stage, lookupErr, ran, data, r) ==
    \E op \in Ops, code \in Codes, blobResult \in SinkResults :
        LET out == callOutcome(op, r, code, blobResult) IN
        /\ pc' = [pc EXCEPT ![p] = "done"]
        /\ req' = [req EXCEPT ![p].op = op, ![p].data = data, ![p].code = code]
        /\ w' = [w EXCEPT ![p] = out.w]
        /\ resp' = [resp EXCEPT ![p] = out.resp]
        /\ ret' = [ret EXCEPT ![p] = out.ret]
        /\ obs' = [obs EXCEPT ![p].stage = stage, ![p].lookupErr = lookupErr,
                              ![p].ran = ran, ![p].render = r,
                              ![p].entry = IF stage \in {"ok", "execfail", "panic"}
                                           THEN execName(heap[req[p].view]) ELSE ""]

\* variants: lookupTemplate recompiles always, or never
lookupReloadsAlways(reload) == TRUE

lookupReloadsNever(reload) == FALSE

\* lookupTemplate goes on to recompile the view it found when autoReload is set
lookupReloads(reload) == reload

\* the calls that are about to write the map: compileTemplate has parsed without
\* an error and has the assignments left
MapWriters == {q \in Procs : pc[q] = "assign" /\ req[q].parsed.err = NilErr}

\* lookupTemplate's map read; for a name that is not a key, the whole of Render's
\* error path.  The map is not guarded: a read that meets another call's write
\* either goes through or is stopped by the runtime ("concurrent map read and map
\* write"), which is recorded as the outcome of the reading call
Lookup(p) ==
    /\ Quiet
    /\ pc[p] = "lookup"
    /\ \/ IF req[p].name \notin DOMAIN templates
          THEN \E e \in SinkResults :
                   Finish(p, "notfound", notFound, Nil, "none", renderLookupFailed(notFound, e))
          ELSE /\ req' = [req EXCEPT ![p].view = templates[req[p].name]]
               /\ pc' = [pc EXCEPT ![p] = IF lookupReloads(autoReload) THEN "parse" ELSE "exec"]
               /\ obs' = [obs EXCEPT ![p].slotNil = heap[templates[req[p].name]].template = Nil]
               /\ UNCHANGED <<w, resp, ret>>
       \/ /\ MapWriters \ {p} # {}
          /\ Finish(p, "fatal", NilErr, Nil, "none", [w |-> <<>>, resp |-> <<>>, ret |-> Fatal])
    /\ UNCHANGED <<fsys, autoReload, templates, heap, lastAdd, latest>>

\* compileTemplate, called by lookupTemplate: ParseFS reads the file collection
Parse(p) ==
    /\ Quiet
    /\ pc[p] = "parse"
    /\ req' = [req EXCEPT ![p].parsed = compileParse(heap[req[p].view], fsys)]
    /\ pc' = [pc EXCEPT ![p] = "assign"]
    /\ UNCHANGED <<fsys, autoReload, templates, heap, lastAdd, latest, w, resp, ret, obs>>

\* compileTemplate: tmpl.template, err = ...ParseFS(...), then the map write
\* unless err; on an error lookupTemplate returns it and Render takes its error
\* path
Assign(p) ==
    /\ Quiet
    /\ pc[p] = "assign"
    /\ LET r == compileAssign([heap |-> heap, templates |-> templates], req[p].view, req[p].parsed)
       IN /\ templates' = r.templates
          /\ heap' = Collect(r.heap, r.templates, Held(req, Running))
          /\ IF r.err # NilErr
             THEN \E e \in SinkResults :
                      Finish(p, "compilefail", r.err, Nil, "none", renderLookupFailed(r.err, e))
             ELSE /\ pc' = [pc EXCEPT ![p] = "exec"]
                  /\ UNCHANGED <<req, w, resp, ret, obs>>
    /\ UNCHANGED <<fsys, autoReload, lastAdd, latest>>

\* how Render's outcome is classed
execStage(r) ==
    IF r.ret = Panic THEN "panic" ELSE IF r.ret = NilErr THEN "ok" ELSE "execfail"

\* Render from the execution on
Exec(p) ==
    /\ Quiet
    /\ pc[p] = "exec"
    /\ \E data \in Data :
         LET v == heap[req[p].view]
             r == renderExecute(v, data)
         IN Finish(p, execStage(r), NilErr, v.template, data, r)
    /\ UNCHANGED <<fsys, autoReload, templates, heap, lastAdd, latest>>

\* the caller takes the call's result; the request is over
Return(p) ==
    /\ pc[p] = "done"
    /\ pc' = [pc EXCEPT ![p] = "idle"]
    /\ req' = [req EXCEPT ![p] = NoReq]
    /\ w' = [w EXCEPT ![p] = <<>>]
    /\ resp' = [resp EXCEPT ![p] = <<>>]
    /\ ret' = [ret EXCEPT ![p] = NilErr]
    /\ obs' = [obs EXCEPT ![p] = NoObs]
    /\ heap' = Collect(heap, templates, Held(req, Running))
    /\ UNCHANGED <<fsys, autoReload, templates, lastAdd, latest>>

\* One request at a time: every operation of the renderer, the file collection
\* changing between and during them.
Next ==
    \/ \E f \in Files : \E c \in Alt(f) : WriteFile(f, c)
    \/ \E kind \in AddKinds :
         \E layout \in (IF kind = "Add" THEN {<<>>} ELSE LayoutPatterns) :
           \E includes \in (IF kind = "AddWithLayoutAndIncludes" THEN IncludesPatterns ELSE {<<>>}) :
             \E patterns \in PatternLists :
               AddTemplates(kind, layout, includes, patterns)
    \/ AddReturn
    \/ \E name \in RenderNames : CallRender("r1", name)
    \/ Lookup("r1")
    \/ Parse("r1")
    \/ Assign("r1")
    \/ Exec("r1")
    \/ Return("r1")

Spec == Init /\ [][Next]_vars

\* The same, for what the views render: the layout and the page are rewritten
\* with every kind of page content, and stay present and parsable.
PageAlt(f) ==
    CASE f = LayoutFile -> {"L1", "L2"}
      [] f = HeaderFile -> {"H1"}
      [] f = IndexFile  -> {"P1", "P2", "P3", "S1"}
      [] f = MetaFile   -> {Absent}
      [] f = DataFile   -> {"D1"}
      [] f = DataPage   -> {Absent}

NextPages ==
    \/ \E f \in Files : \E c \in PageAlt(f) : WriteFile(f, c)
    \/ \E kind \in AddKinds :
         \E layout \in (IF kind = "Add" THEN {<<>>} ELSE LayoutPatterns) :
           \E includes \in (IF kind = "AddWithLayoutAndIncludes" THEN IncludesPatterns ELSE {<<>>}) :
             \E patterns \in PatternLists :
               AddTemplates(kind, layout, includes, patterns)
    \/ AddReturn
    \/ \E name \in RenderNames : CallRender("r1", name)
    \/ Lookup("r1")
    \/ Parse("r1")
    \/ Assign("r1")
    \/ Exec("r1")
    \/ Return("r1")

SpecPages == Init /\ [][NextPages]_vars

\* The same, for registration: the page files of two directories, with two
\* base names between them, come, go and break between the calls.
RegAlt(f) ==
    CASE f = LayoutFile -> {"L1"}
      [] f = HeaderFile -> {"H1"}
      [] f = IndexFile  -> {"P1", "BAD"}
      [] f = MetaFile   -> {Absent}
      [] f = DataFile   -> {"D1", "BAD"}
      [] f = DataPage   -> {"D1", "BAD", Absent}

NextRegister ==
    \/ \E f \in Files : \E c \in RegAlt(f) : WriteFile(f, c)
    \/ \E kind \in AddKinds :
         \E layout \in (IF kind = "Add" THEN {<<>>} ELSE LayoutPatterns) :
           \E includes \in (IF kind = "AddWithLayoutAndIncludes" THEN IncludesPatterns ELSE {<<>>}) :
             \E patterns \in PatternLists :
               AddTemplates(kind, layout, includes, patterns)
    \/ AddReturn
    \/ \E name \in {"index.html", "data.html"} : CallRender("r1", name)
    \/ Lookup("r1")
    \/ Exec("r1")
    \/ Return("r1")

\* New(fsys) without WithAutoReload: a render never touches a view
InitRegister == Init /\ ~autoReload

SpecRegister == InitRegister /\ [][NextRegister]_vars

\* Concurrent requests after startup, in reload mode: the views are registered
\* (by one of the registration calls, on the initial file collection), and
\* Render calls interleave at their reads and writes of shared state.
StartupCalls ==
    { [kind |-> "Add", layout |-> <<>>, includes |-> <<>>],
      [kind |-> "AddWithLayout", layout |-> LayoutFile, includes |-> <<>>],
      [kind |-> "AddWithLayoutAndIncludes", layout |-> LayoutFile, includes |-> <<"includes", "*.html">>] }

InitConc ==
    /\ fsys = InitFS
    /\ autoReload = TRUE
    /\ \E c \in StartupCalls :
         LET r == addCall([heap |-> [v \in ViewIds |-> Free], templates |-> EmptyMap], InitFS,
                          c.kind, c.layout, c.includes, << <<"pages", "*.html">> >>)
         IN /\ heap = r.heap /\ templates = r.templates
            /\ latest = Newest(EmptyMap, InitFS, c.kind, c.layout, c.includes, << <<"pages", "*.html">> >>)
    /\ lastAdd = NoAdd
    /\ pc = [p \in Procs |-> "idle"]
    /\ req = [p \in Procs |-> NoReq]
    /\ w = [p \in Procs |-> <<>>]
    /\ resp = [p \in Procs |-> <<>>]
    /\ ret = [p \in Procs |-> NilErr]
    /\ obs = [p \in Procs |-> NoObs]

NextConc ==
    \/ \E f \in Files : \E c \in Alt(f) : WriteFile(f, c)
    \/ \E p \in Procs : \E name \in RenderNames : CallRender(p, name)
    \/ \E p \in Procs : Lookup(p)
    \/ \E p \in Procs : Parse(p)
    \/ \E p \in Procs : Assign(p)
    \/ \E p \in Procs : Exec(p)
    \/ \E p \in Procs : Return(p)

SpecConc == InitConc /\ [][NextConc]_vars

\* Concurrent requests after startup, with autoReload on or off
InitServing ==
    /\ fsys = InitFS
    /\ autoReload \in BOOLEAN
    /\ \E c \in StartupCalls :
         LET r == addCall([heap |-> [v \in ViewIds |-> Free], templates |-> EmptyMap], InitFS,
                          c.kind, c.layout, c.includes, << <<"pages", "*.html">> >>)
         IN /\ heap = r.heap /\ templates = r.templates
            /\ latest = Newest(EmptyMap, InitFS, c.kind, c.layout, c.includes, << <<"pages", "*.html">> >>)
    /\ lastAdd = NoAdd
    /\ pc = [p \in Procs |-> "idle"]
    /\ req = [p \in Procs |-> NoReq]
    /\ w = [p \in Procs |-> <<>>]
    /\ resp = [p \in Procs |-> <<>>]
    /\ ret = [p \in Procs |-> NilErr]
    /\ obs = [p \in Procs |-> NoObs]

SpecServing == InitServing /\ [][NextConc]_vars

\* The program after startup, one request at a time: further registration
\* calls come on top of the views registered at startup.
SpecReplace == InitServing /\ [][Next]_vars


----------------------------------------------------------------------------
(* Properties *)

Done(p) == pc[p] = "done"

\* the call got as far as executing the view
Executed(p) == obs[p].stage \in {"ok", "execfail"}

\* the View the call holds
ViewOf(p) == heap[req[p].view]

\* Render's outcome had it executed the artifact t for the call's view and data
OutcomeWith(p, t) == renderExecute([ViewOf(p) EXCEPT !.template = t], req[p].data)

HTMLBlobCalls(p) == {i \in 1..Len(resp[p]) : resp[p][i].call = "HTMLBlob"}

\* C1: for a name that is not a key of the registry, Render returns the
\* "template not found" error to its caller, whatever NoContent returns.
C1_NotFoundErrorReturned ==
    \A p \in Procs :
        (Done(p) /\ req[p].name \notin DOMAIN templates)
            => obs[p].render.ret.kind = "notfound"

\* C2: when the rendering inside RenderToHTMLBlob fails (unregistered name,
\* recompilation failure, execution failure), RenderToHTMLBlob returns a non-nil
\* error and does not call HTMLBlob.
C2_BlobOnlyAfterSuccess ==
    \A p \in Procs :
        (Done(p) /\ req[p].op = "RenderToHTMLBlob"
                 /\ obs[p].stage \in {"notfound", "compilefail", "execfail"})
            => (ret[p] # NilErr /\ HTMLBlobCalls(p) = {})

\* C3: with autoReload, when recompiling the view fails, Render returns that
\* compile error itself and writes nothing to the output sink (the artifact
\* compiled before is not executed).
C3_CompileErrorReturned ==
    \A p \in Procs :
        (Done(p) /\ autoReload /\ obs[p].stage = "compilefail")
            => (obs[p].render.ret = obs[p].lookupErr /\ obs[p].render.w = <<>>)

\* C4: with autoReload off, whatever has happened to the files since, a Render
\* that executes a view gives what executing the artifact compiled at the view's
\* registration gives.
C4_CachedArtifactStable ==
    \A p \in Procs :
        (Done(p) /\ ~autoReload /\ Executed(p))
            => obs[p].render = OutcomeWith(p, ViewOf(p).reg)

\* a Render with autoReload off has executed a view whose sources have changed
\* since registration, and its output is not what the changed sources give
C4_Witness ==
    \E p \in Procs :
        /\ Done(p) /\ ~autoReload /\ obs[p].stage = "ok"
        /\ LET now == compileParse(ViewOf(p), fsys) IN
           /\ now.err = NilErr
           /\ OutcomeWith(p, now.tmpl).w # obs[p].render.w

\* C5: with autoReload, a Render that executes a view gives what the
\* file collection's current content gives (the content has not changed since
\* the call began).
C5_RendersCurrentContent ==
    \A p \in Procs :
        (Done(p) /\ autoReload /\ Executed(p) /\ ~obs[p].dirty)
            => obs[p].render = OutcomeWith(p, compileParse(ViewOf(p), fsys).tmpl)

\* C5, for calls on their own: with autoReload, a Render that no other call overlaps
\* executes the artifact it has itself just compiled, and gives what the file
\* collection's current content gives if that has not changed since the call
\* began.
C5_RendersCurrentContentAlone ==
    \A p \in Procs :
        (Done(p) /\ autoReload /\ Executed(p) /\ ~obs[p].overlap)
            => /\ obs[p].ran = req[p].parsed.tmpl
               /\ ~obs[p].dirty =>
                    obs[p].render = OutcomeWith(p, compileParse(ViewOf(p), fsys).tmpl)

\* a Render that nothing overlapped has written output that differs from what
\* the artifact compiled at registration gives
C5_Witness ==
    \E p \in Procs :
        /\ Done(p) /\ autoReload /\ obs[p].stage = "ok" /\ ~obs[p].overlap /\ ~obs[p].dirty
        /\ ViewOf(p).reg # Nil
        /\ OutcomeWith(p, ViewOf(p).reg).w # obs[p].render.w


\* the non-empty patterns a registration call was given, page patterns first
Supplied(a) ==
    a.patterns
    \o (IF a.kind # "Add" /\ a.layout # <<>> THEN <<a.layout>> ELSE <<>>)
    \o (IF a.kind = "AddWithLayoutAndIncludes" /\ a.includes # <<>> THEN <<a.includes>> ELSE <<>>)

\* the call has at least one page pattern and all its patterns are well formed
WellFormedCall(a) ==
    /\ a.patterns # <<>>
    /\ \A i \in 1..Len(Supplied(a)) : ~BadPattern(Supplied(a)[i])

MatchesNothing(pattern) == \A f \in Files : ~MatchesFile(fsys, pattern, f)

\* C6: a registration call fails with the "pattern matches no files" error if
\* one of the patterns it is given matches no file, and never fails with that
\* error if each of them matches a file.  (Read for the calls that have a page
\* pattern and whose patterns are all well formed.)
C6_NoFilesErrorIffNoMatch ==
    (lastAdd # NoAdd /\ WellFormedCall(lastAdd))
        => (lastAdd.err.kind = "nomatch"
                <=> \E i \in 1..Len(Supplied(lastAdd)) : MatchesNothing(Supplied(lastAdd)[i]))

\* the artifacts a full compilation of view v can give, over every state of the
\* file collection
AllFS ==
    {[f \in Files |-> CASE f = LayoutFile -> l [] f = HeaderFile -> h [] f = IndexFile -> i
                        [] f = MetaFile -> m [] f = DataFile -> d [] f = DataPage -> e] :
        l \in Alt(LayoutFile), h \in Alt(HeaderFile), i \in Alt(IndexFile),
        m \in Alt(MetaFile), d \in Alt(DataFile), e \in Alt(DataPage)}

WholeArtifacts(v) == {compileParse(v, fs).tmpl : fs \in AllFS} \ {Nil}

\* C7: in reload mode, when Render calls on a view interleave, each call that
\* gets to execute the view executes a whole artifact: one that a compilation
\* of the view has produced, never something else.
C7_ExecutesWholeArtifact ==
    \A p \in Procs :
        (Done(p) /\ autoReload /\ obs[p].stage \in {"ok", "execfail", "panic"})
            => obs[p].ran \in WholeArtifacts(ViewOf(p))

\* C8: for a name that is not a key of the registry, Render writes nothing to
\* the output sink and makes one call on the response sink: NoContent(500).
C8_NotFoundSendsNoContent500 ==
    \A p \in Procs :
        (Done(p) /\ req[p].name \notin DOMAIN templates)
            => /\ obs[p].render.w = <<>>
               /\ obs[p].render.resp = <<[call |-> "NoContent", code |-> 500, body |-> <<>>]>>

\* Render has been called with a name that is not registered, and has ended
C8_Witness ==
    \E p \in Procs :
        /\ Done(p) /\ req[p].op = "Render" /\ req[p].name \notin DOMAIN templates
        /\ templates # EmptyMap
        /\ Len(resp[p]) = 1

\* C9: a Render that executes a registered view without error makes no call on
\* the response sink and returns nil.
C9_SuccessLeavesResponseAlone ==
    \A p \in Procs :
        (Done(p) /\ req[p].op = "Render" /\ req[p].name \in DOMAIN templates
                 /\ obs[p].stage = "ok")
            => (resp[p] = <<>> /\ ret[p] = NilErr)

\* Render has executed a registered view and written output
C9_Witness ==
    \E p \in Procs :
        /\ Done(p) /\ req[p].op = "Render" /\ obs[p].stage = "ok"
        /\ w[p] # <<>> /\ resp[p] = <<>>

\* C10: when the rendering succeeds, RenderToHTMLBlob makes one call on the
\* response sink: HTMLBlob with the status code it was given and, as body, what
\* Render wrote for the view and the data.
C10_BlobSentOnce ==
    \A p \in Procs :
        (Done(p) /\ req[p].op = "RenderToHTMLBlob" /\ obs[p].stage = "ok")
            => resp[p] = <<[call |-> "HTMLBlob", code |-> req[p].code,
                            body |-> OutcomeWith(p, obs[p].ran).w]>>

\* RenderToHTMLBlob has sent a body that is not empty
C10_Witness ==
    \E p \in Procs :
        /\ Done(p) /\ req[p].op = "RenderToHTMLBlob" /\ obs[p].stage = "ok"
        /\ Len(resp[p]) = 1 /\ resp[p][1].body # <<>>


\* the files the page patterns of a registration call match
PageFiles(a) ==
    {f \in Files : \E i \in 1..Len(a.patterns) : MatchesFile(fsys, a.patterns[i], f)}

\* the layout and the includes the views of a registration call are to have
LayoutOf(a) == IF a.kind = "Add" THEN <<>> ELSE a.layout

IncludesOf(a) == IF a.kind = "AddWithLayoutAndIncludes" THEN a.includes ELSE <<>>

Succeeded(a) == a # NoAdd /\ a.err = NilErr

\* the registry holds, under key, a compiled view of file f with the layout and
\* includes of call a
RegisteredAs(a, key, f) ==
    /\ key \in DOMAIN templates
    /\ LET v == heap[templates[key]] IN
       /\ v.name = f
       /\ v.layout = LayoutOf(a)
       /\ v.includes = IncludesOf(a)
       /\ v.template # Nil

\* C11: a registration call that succeeds registers one view for each file its
\* page patterns match, under the file's base name, with the layout and
\* includes the call gives (none for Add, no includes for AddWithLayout), and
\* adds no other key.
C11_OneViewPerFile ==
    Succeeded(lastAdd)
        => /\ \A f \in PageFiles(lastAdd) : RegisteredAs(lastAdd, Base(f), f)
           /\ DOMAIN templates = DOMAIN lastAdd.before \cup {Base(f) : f \in PageFiles(lastAdd)}

\* the files the page patterns match, in the order the call goes through them
PageFileList(a) == readFileNames(fsys, a.patterns).files

\* the last file of the list with base name b
LastNamed(files, b) ==
    LET is == {i \in 1..Len(files) : Base(files[i]) = b} IN
    files[CHOOSE i \in is : \A j \in is : j <= i]

\* C11, by base name: a registration call that succeeds registers one view for
\* each base name among the files its page patterns match: the view of the
\* last such file the call went through, with the layout and includes the
\* call gives; it adds no other key.
C11_OneViewPerBaseName ==
    Succeeded(lastAdd)
        => /\ \A f \in PageFiles(lastAdd) :
                RegisteredAs(lastAdd, Base(f), LastNamed(PageFileList(lastAdd), Base(f)))
           /\ DOMAIN templates = DOMAIN lastAdd.before \cup {Base(f) : f \in PageFiles(lastAdd)}

\* a call with a layout has succeeded on page files of two directories that
\* share a base name
C11_Witness ==
    /\ Succeeded(lastAdd)
    /\ lastAdd.kind # "Add" /\ lastAdd.layout # <<>>
    /\ \E f \in PageFiles(lastAdd) : \E g \in PageFiles(lastAdd) : f # g /\ Base(f) = Base(g)


\* what the engine does when the call's entry point is executed on the artifact
\* the call ran, with the call's data
EngineRun(p) ==
    ExecuteTemplate(obs[p].ran,
                    IF ViewOf(p).layout # <<>> THEN Base(ViewOf(p).layout) ELSE Base(ViewOf(p).name),
                    req[p].data)

\* C12: when the execution fails, Render returns the engine's error as it is,
\* calls nothing on the response sink, and the output sink holds what the
\* engine wrote before it failed.
C12_ExecErrorVerbatim ==
    \A p \in Procs :
        (Done(p) /\ obs[p].stage = "execfail")
            => /\ obs[p].render.ret = EngineRun(p).err
               /\ obs[p].render.ret.wrap = <<>>
               /\ obs[p].render.resp = <<>>
               /\ obs[p].render.w = EngineRun(p).out
               /\ w[p] = EngineRun(p).out
               /\ resp[p] = <<>>
               /\ ret[p] = EngineRun(p).err

\* an execution has failed after writing output
C12_Witness ==
    \E p \in Procs :
        /\ Done(p) /\ obs[p].stage = "execfail"
        /\ w[p] # <<>>
        /\ ret[p].kind = "exec"


\* the file's text has no template action: it defines nothing and its body is
\* literal text only
StaticPage(c) ==
    /\ c # Absent
    /\ ParseText(c).ok
    /\ ParseText(c).defs = <<>>
    /\ ParseText(c).body # <<>>
    /\ \A i \in 1..Len(ParseText(c).body) : ParseText(c).body[i].t \in {"text", "comment", "lt"}

\* the text of such a file, piece by piece
StaticContent(c) == [i \in 1..Len(ParseText(c).body) |-> ParseText(c).body[i].s]

\* the text is plain: no HTML comment and no "<" that opens no tag
PlainPage(c) ==
    StaticPage(c) /\ \A i \in 1..Len(ParseText(c).body) : ParseText(c).body[i].t = "text"

\* a call has rendered, with nil data, a view registered by Add, from the page
\* file as it is now
RenderedPageOnly(p) ==
    /\ Done(p) /\ obs[p].stage = "ok" /\ req[p].op = "Render"
    /\ req[p].data = "nil"
    /\ ViewOf(p).layout = <<>> /\ ViewOf(p).includes = <<>>
    /\ obs[p].ran = compileParse(ViewOf(p), fsys).tmpl

DefinedIn(c, name) ==
    LET ds == ParseText(c).defs
        is == {i \in 1..Len(ds) : ds[i][1] = name}
    IN IF is = {} THEN [defined |-> FALSE, body |-> <<>>]
       ELSE [defined |-> TRUE, body |-> ds[CHOOSE i \in is : \A j \in is : j <= i][2]]

\* where the layout's text has its content hook
HookAt(body) == CHOOSE i \in 1..Len(body) : body[i] = Call("content")

HasHook(body) == \E i \in 1..Len(body) : body[i] = Call("content")

\* what literal text and data fields write, piece by piece
RECURSIVE Written(_, _)
Written(items, data) ==
    IF items = <<>> THEN <<>>
    ELSE (CASE Head(items).t = "text" -> <<Head(items).s>>
            [] Head(items).t = "field" -> IF data = "post" THEN <<"title ">> ELSE <<>>
            [] OTHER -> <<>>)
         \o Written(Tail(items), data)

\* the layout's text around the page's content block
Framed(layout, page, data) ==
    LET body == ParseText(layout).body
        k    == HookAt(body)
    IN Written(SubSeq(body, 1, k - 1), data)
       \o Written(DefinedIn(page, "content").body, data)
       \o Written(SubSeq(body, k + 1, Len(body)), data)

\* a call has rendered a view AddWithLayout registered, from the layout and page
\* files as they are now, and the page defines the content block
RenderedWithLayout(p) ==
    /\ Done(p) /\ obs[p].stage = "ok"
    /\ ViewOf(p).layout # <<>> /\ ViewOf(p).includes = <<>>
    /\ obs[p].ran = compileParse(ViewOf(p), fsys).tmpl
    /\ HasHook(ParseText(fsys[ViewOf(p).layout]).body)
    /\ DefinedIn(fsys[ViewOf(p).name], "content").defined

\* C14: for a view registered by AddWithLayout, Render writes the layout's text
\* with the output of the page's content block at the place of the layout's
\* content hook: the text before the hook, the block's output, the text after.
C14_LayoutFramesPage ==
    \A p \in Procs :
        RenderedWithLayout(p)
            => obs[p].render.w = Framed(fsys[ViewOf(p).layout], fsys[ViewOf(p).name], req[p].data)

\* a layout with text on both sides of its hook has framed a page's block
C14_Witness ==
    \E p \in Procs :
        /\ RenderedWithLayout(p)
        /\ w[p] = <<"layout ", "index ", "end">>


\* what the layout's text writes when each reference in it is replaced by what
\* it names: the content hook by the page's block, any other by the include
\* fragment of that name (inc, page: the content of the include and page files)
RECURSIVE Expanded(_, _, _, _)
Expanded(items, inc, page, data) ==
    IF items = <<>> THEN <<>>
    ELSE LET it == Head(items) IN
         (CASE it.t = "call" /\ it.s = "content" ->
                   Expanded(DefinedIn(page, "content").body, inc, page, data)
            [] it.t = "call" /\ it.s # "content" ->
                   Written(DefinedIn(inc, it.s).body, data)
            [] OTHER -> Written(<<it>>, data))
         \o Expanded(Tail(items), inc, page, data)

\* a call has executed a view AddWithLayoutAndIncludes registered, with data
\* that has what the page reads, on the artifact the files give as they are
\* now; the page defines the content block
RenderedWithIncludes(p) ==
    /\ Done(p) /\ Executed(p)
    /\ req[p].data # "other"
    /\ ViewOf(p).layout # <<>> /\ ViewOf(p).includes # <<>>
    /\ obs[p].ran = compileParse(ViewOf(p), fsys).tmpl
    /\ HasHook(ParseText(fsys[ViewOf(p).layout]).body)
    /\ DefinedIn(fsys[ViewOf(p).name], "content").defined

\* C15: for a view registered by AddWithLayoutAndIncludes, Render succeeds and
\* writes the layout's text around the page's block, with the content of an
\* include fragment at each place where the layout or the page refers to it.
C15_IncludesInPlace ==
    \A p \in Procs :
        RenderedWithIncludes(p)
            => /\ obs[p].stage = "ok"
               /\ obs[p].render.w = Expanded(ParseText(fsys[ViewOf(p).layout]).body,
                                             fsys[HeaderFile], fsys[ViewOf(p).name], req[p].data)

\* the layout and the page both refer to the header fragment, and both got it
C15_Witness ==
    \E p \in Procs :
        /\ RenderedWithIncludes(p)
        /\ w[p] = <<"header ", "LAYOUT ", "top ", "header ", "footer">>


\* C16: the name Render passes to ExecuteTemplate is the base name of the
\* view's layout if the view has a layout, and the base name of its page file
\* otherwise.
C16_EntryPoint ==
    \A p \in Procs :
        (Done(p) /\ obs[p].stage \in {"ok", "execfail", "panic"})
            => obs[p].entry = IF ViewOf(p).layout # <<>>
                              THEN ViewOf(p).layout[Len(ViewOf(p).layout)]
                              ELSE ViewOf(p).name[Len(ViewOf(p).name)]

\* a view with a layout has been executed by the layout's name, which is not
\* the page's
C16_Witness ==
    \E p \in Procs :
        /\ Done(p) /\ obs[p].stage = "ok"
        /\ ViewOf(p).layout # <<>>
        /\ obs[p].entry = "layout.html"
        /\ obs[p].entry # ViewOf(p).name[Len(ViewOf(p).name)]


\* the list of sources a view is to be compiled from: the layout if it has one,
\* then the includes if it has any, then the page
SourceList(v) ==
    (IF v.layout = <<>> THEN <<>> ELSE <<v.layout>>)
    \o (IF v.includes = <<>> THEN <<>> ELSE <<v.includes>>)
    \o <<v.name>>

\* C17: the patterns compileTemplate hands to the engine for a view are the
\* layout if not empty, then the includes if not empty, then the page, at
\* registration and at every reload: what a reload parsed, and the artifact a
\* registration stored, are what the engine gives for that list.
C17_SourceOrder ==
    /\ \A ptr \in ViewIds : heap[ptr] # Free => compilePatterns(heap[ptr]) = SourceList(heap[ptr])
    /\ \A p \in Procs :
          (pc[p] = "assign" /\ ~obs[p].dirty)
              => req[p].parsed = ParseFS(Base(ViewOf(p).name), fsys, SourceList(ViewOf(p)))
    /\ Succeeded(lastAdd) =>
          \A f \in PageFiles(lastAdd) :
              LET v == heap[templates[Base(f)]] IN
              v.template = ParseFS(Base(v.name), fsys, SourceList(v)).tmpl

\* a reload has compiled a view that has a layout and includes
C17_Witness ==
    \E p \in Procs :
        /\ pc[p] = "assign" /\ ~obs[p].dirty
        /\ req[p].parsed.err = NilErr
        /\ ViewOf(p).layout # <<>> /\ ViewOf(p).includes # <<>>


\* the registry as a caller can see it: each name with its view's fields
Registry ==
    [k \in DOMAIN templates |->
        [name |-> heap[templates[k]].name, layout |-> heap[templates[k]].layout,
         includes |-> heap[templates[k]].includes, template |-> heap[templates[k]].template]]

\* C18: with autoReload off, no step of a Render or RenderToHTMLBlob call, of
\* one request or of several at once, changes the registry: the names, each
\* view's name, layout and includes, and each view's artifact stay as they are.
C18_RendersOnlyRead ==
    [][(~autoReload /\ pc' # pc)
          => (templates' = templates /\ heap' = heap /\ Registry' = Registry)]_vars

\* with autoReload off, one call has rendered a view while another call, for a
\* name that is not registered, is in progress
C18_Witness ==
    /\ ~autoReload
    /\ Done("r1") /\ obs["r1"].stage = "ok"
    /\ pc["r2"] = "lookup" /\ req["r2"].name \notin DOMAIN templates
    /\ fsys # InitFS


\* every entry of the map is keyed by the base name of its view's page file
KeyedByBase ==
    \A k \in DOMAIN templates :
        heap[templates[k]] # Free /\ heap[templates[k]].name[Len(heap[templates[k]].name)] = k

\* the step leaves every View's name, layout and includes as they are
ViewsKeepIdentity ==
    \A ptr \in ViewIds :
        (heap[ptr] # Free /\ heap'[ptr] # Free)
            => /\ heap'[ptr].name = heap[ptr].name
               /\ heap'[ptr].layout = heap[ptr].layout
               /\ heap'[ptr].includes = heap[ptr].includes

\* C19: every entry of the registry is keyed by the base name of its view's
\* page file, always; and no step of a Render call, in reload mode or not, adds
\* a name to the registry, removes one, moves a view to another key, or changes
\* a view's name, layout or includes.
C19_RegistryKeysStable ==
    /\ []KeyedByBase
    /\ [][(pc' # pc) => (templates' = templates /\ ViewsKeepIdentity)]_vars

\* in reload mode a view has been rendered while a file that the page pattern
\* of its registration would now match is not registered
C19_Witness ==
    \E p \in Procs :
        /\ autoReload /\ Done(p) /\ obs[p].stage = "ok"
        /\ fsys[MetaFile] # Absent
        /\ DOMAIN templates = {"index.html"}
        /\ ViewOf(p).name = IndexFile


\* C20: in reload mode, however concurrent Render calls on a view interleave,
\* and also when the recompilation of one of them fails, no call executes the
\* view while its template field is nil.
C20_NeverExecutesNil ==
    \A p \in Procs :
        (Done(p) /\ autoReload /\ obs[p].entry # "")
            => (obs[p].ran # Nil /\ obs[p].render.ret # Panic)


\* C21: in reload mode a failed recompilation does not stick.  The Render that
\* fails for it leaves the view registered under its name; and a later Render
\* of the name that finds the template field nil, with sources that compile,
\* recompiles, executes the new artifact and gives what the current sources
\* give.
C21_FailureNotSticky ==
    \A p \in Procs :
        /\ (Done(p) /\ autoReload /\ obs[p].stage = "compilefail")
              => /\ req[p].name \in DOMAIN templates
                 /\ templates[req[p].name] = req[p].view
                 /\ ViewOf(p).template = Nil
        /\ (Done(p) /\ autoReload /\ obs[p].slotNil /\ ~obs[p].dirty
                    /\ compileParse(ViewOf(p), fsys).err = NilErr)
              => /\ Executed(p)
                 /\ obs[p].ran = compileParse(ViewOf(p), fsys).tmpl
                 /\ ViewOf(p).template = obs[p].ran
                 /\ obs[p].render = OutcomeWith(p, compileParse(ViewOf(p), fsys).tmpl)

\* a Render of a view whose last recompilation had failed has succeeded and
\* written output
C21_Witness ==
    \E p \in Procs :
        /\ Done(p) /\ autoReload /\ obs[p].slotNil /\ ~obs[p].dirty
        /\ obs[p].stage = "ok" /\ ret[p] = NilErr
        /\ w[p] # <<>>


\* the registry in full: each name with its View
Views == [k \in DOMAIN templates |-> heap[templates[k]]]

\* registration call a ended in readFileNames: its page patterns did not resolve
ResolveFailed(a) == a # NoAdd /\ readFileNames(fsys, a.patterns).err # NilErr

\* the place, in the list of page files call a goes through, of the first file
\* whose view does not compile; 0 if all compile
FirstFailing(a) ==
    LET files == PageFileList(a)
        bad   == {i \in 1..Len(files) :
                     compileParse(NewView(files[i], LayoutOf(a), IncludesOf(a)), fsys).err # NilErr}
    IN IF bad = {} THEN 0 ELSE CHOOSE i \in bad : \A j \in bad : i <= j

\* registration call a ended in compileTemplate, on its FirstFailing(a)-th file
CompileFailed(a) == a # NoAdd /\ ~ResolveFailed(a) /\ FirstFailing(a) > 0

\* a Render of key would find a view and execute its artifact
Renderable(key) ==
    /\ key \in DOMAIN templates
    /\ heap[templates[key]].template # Nil
    /\ \A data \in Data : renderExecute(heap[templates[key]], data).ret # Panic

\* C22, as stated: a registration call that fails on its k-th page file leaves
\* a renderable view of each of the first k-1 files registered, no view of the
\* k-th or a later file registered, and the views under other names as they
\* were; a call whose page patterns do not resolve leaves the registry as it was.
C22_LaterFilesAbsent ==
    /\ ResolveFailed(lastAdd) => (lastAdd.err # NilErr /\ Views = lastAdd.was)
    /\ CompileFailed(lastAdd) =>
          LET files == PageFileList(lastAdd)
              k     == FirstFailing(lastAdd)
          IN /\ lastAdd.err # NilErr
             /\ \A i \in 1..(k - 1) :
                   RegisteredAs(lastAdd, Base(files[i]), files[i]) /\ Renderable(Base(files[i]))
             /\ \A i \in k..Len(files) :
                   (\A j \in 1..(k - 1) : files[j] # files[i])
                       => ~(Base(files[i]) \in DOMAIN templates /\ Views[Base(files[i])].name = files[i])
             /\ \A key \in DOMAIN lastAdd.was :
                   key \notin {Base(files[i]) : i \in 1..Len(files)}
                       => (key \in DOMAIN templates /\ Views[key] = lastAdd.was[key])

\* C22, by base name: a registration call that fails on its k-th page file
\* leaves, for each base name among the first k-1 files, a renderable view of
\* the last of them with that base name; every other name, the k-th and later
\* files' names included, keeps the view it had before the call or stays
\* unregistered; a call whose page patterns do not resolve leaves the registry
\* as it was.
C22_PartialRegistration ==
    /\ ResolveFailed(lastAdd) => (lastAdd.err # NilErr /\ Views = lastAdd.was)
    /\ CompileFailed(lastAdd) =>
          LET files == PageFileList(lastAdd)
              k     == FirstFailing(lastAdd)
              head  == SubSeq(files, 1, k - 1)
              names == {Base(head[i]) : i \in 1..Len(head)}
          IN /\ lastAdd.err # NilErr
             /\ DOMAIN templates = DOMAIN lastAdd.was \cup names
             /\ \A key \in names :
                   /\ RegisteredAs(lastAdd, key, LastNamed(head, key))
                   /\ Renderable(key)
                   /\ Views[key].template = compileParse(Views[key], fsys).tmpl
             /\ \A key \in DOMAIN lastAdd.was \ names : Views[key] = lastAdd.was[key]

\* a call has failed on its second page file, after registering the first under
\* a new name, while a view registered before is there under another name
C22_Witness ==
    /\ CompileFailed(lastAdd)
    /\ FirstFailing(lastAdd) = 2
    /\ lastAdd.was # EmptyMap
    /\ Base(PageFileList(lastAdd)[1]) \notin DOMAIN lastAdd.was
    /\ Base(PageFileList(lastAdd)[1]) \in DOMAIN templates


\* the view of the newest registration under key, as that call made it
NewestView(key) == NewView(latest[key].name, latest[key].layout, latest[key].includes)

\* the artifact a Render of key is to execute: the one the newest registration
\* compiled or, in reload mode, the one its sources give now
NewestArtifact(key) ==
    IF autoReload THEN compileParse(NewestView(key), fsys).tmpl ELSE latest[key].template

\* C23: the registry holds one view per base name, that of the newest
\* registration under the name: a registration of a file whose base name is
\* taken puts its view in the earlier one's place; and a Render of the name
\* executes the artifact of the newest view's page, layout and includes, by
\* the newest view's entry point.
C23_NewestViewWins ==
    /\ DOMAIN templates = DOMAIN latest
    /\ \A key \in DOMAIN templates :
          /\ Base(Views[key].name) = key
          /\ Views[key].name = latest[key].name
          /\ Views[key].layout = latest[key].layout
          /\ Views[key].includes = latest[key].includes
          /\ Views[key].reg = latest[key].template
          /\ ~autoReload => Views[key].template = latest[key].template
    /\ \A p \in Procs :
          (Done(p) /\ Executed(p) /\ ~obs[p].dirty)
              => /\ req[p].name \in DOMAIN latest
                 /\ obs[p].ran = NewestArtifact(req[p].name)
                 /\ obs[p].entry = execName(NewestView(req[p].name))
                 /\ obs[p].render = renderExecute([NewestView(req[p].name) EXCEPT
                                                      !.template = NewestArtifact(req[p].name)],
                                                  req[p].data)

\* a view of fragments/index.html with a layout, registered on top of the
\* startup view of pages/index.html, has been rendered as index.html
C23_Witness ==
    \E p \in Procs :
        /\ Done(p) /\ obs[p].stage = "ok" /\ ~obs[p].dirty
        /\ req[p].name = "index.html"
        /\ latest["index.html"].name = DataFile
        /\ latest["index.html"].layout # <<>>
        /\ obs[p].entry = "layout.html"
        /\ w[p] # <<>>

====
